---- MODULE Spec2Model ----
(***************************************************************************)
(* emu2mqtt: the serial scan loop of main.go (scanSerial) with its split   *)
(* function, the bufio.Scanner that drives it, the XML decoding into the   *)
(* two long-lived record structures, the validation, the conversions and   *)
(* the publish calls.                                                      *)
(*                                                                         *)
(* A byte is a one-character string; a byte sequence is a tuple of bytes.  *)
(* Positions in the Go code are 0-based, TLA+ sequences are 1-based: an    *)
(* offset i of the code is element i+1 here.                               *)
(***************************************************************************)
EXTENDS Integers, Sequences, FiniteSets, TLC

\* ------------------------------------------------------------------ bounds
\* The longest input stream, in records sent by the meter.
MaxRecords == 2

\* The length of a short read of the serial port, in bytes.
ShortRead == 16

\* ------------------------------------------------------- program constants
\* buf := make([]byte, 2)
InitialBufSize == 2

\* The three closing markers of split, with their lengths 24, 30 and 16.
EndInstantaneousDemand ==
    <<"<", "/", "I", "n", "s", "t", "a", "n", "t", "a", "n", "e", "o", "u",
      "s", "D", "e", "m", "a", "n", "d", ">", "\r", "\n">>
EndCurrentSummationDelivered ==
    <<"<", "/", "C", "u", "r", "r", "e", "n", "t", "S", "u", "m", "m", "a",
      "t", "i", "o", "n", "D", "e", "l", "i", "v", "e", "r", "e", "d", ">",
      "\r", "\n">>
EndTimeCluster ==
    <<"<", "/", "T", "i", "m", "e", "C", "l", "u", "s", "t", "e", "r", ">",
      "\r", "\n">>

\* ---------------------------------------------------------------- helpers
Min(a, b) == IF a < b THEN a ELSE b

\* The element of a one-element set.  The({e : x \in {v}}) is e with x
\* standing for the value of v.
The(S) == CHOOSE r \in S : TRUE

\* The least element of a non-empty set of integers, and the greatest.
Least(S) == CHOOSE i \in S : \A j \in S : i <= j
Greatest(S) == CHOOSE i \in S : \A j \in S : j <= i

RECURSIVE JoinFrom(_, _)
JoinFrom(s, i) == IF i > Len(s) THEN "" ELSE s[i] \o JoinFrom(s, i + 1)

\* string(bytes): a tuple of bytes as one string.
Join(bytes) == The({JoinFrom(s, 1) : s \in {bytes}})

\* Does sep occur in data at 0-based offset i ?
MatchAt(data, sep, i) ==
    /\ i + Len(sep) <= Len(data)
    /\ \A k \in 1..Len(sep) : data[i + k] = sep[k]

\* strings.Index(data, sep): the least 0-based offset of sep in data, or -1.
Index(data, sep) ==
    The({IF hits = {} THEN -1 ELSE Least(hits)
         : hits \in {{i \in 0..(Len(data) - Len(sep)) :
                          MatchAt(data, sep, i)}}})

\* A split that leaves the line break of the marker in the buffer.
splitShortAdvance(data) ==
    The({IF i >= 0 THEN [advance |-> i + 22, token |-> i + 24]
         ELSE IF c >= 0 THEN [advance |-> c + 28, token |-> c + 30]
         ELSE IF t >= 0 THEN [advance |-> t + 14, token |-> t + 16]
         ELSE [advance |-> 0, token |-> -1]
         : i \in {Index(data, EndInstantaneousDemand)},
           c \in {Index(data, EndCurrentSummationDelivered)},
           t \in {Index(data, EndTimeCluster)}})

\* A split whose token stops before the line break of the marker.
splitShortToken(data) ==
    The({IF i >= 0 THEN [advance |-> i + 24, token |-> i + 22]
         ELSE IF c >= 0 THEN [advance |-> c + 30, token |-> c + 28]
         ELSE IF t >= 0 THEN [advance |-> t + 16, token |-> t + 14]
         ELSE [advance |-> 0, token |-> -1]
         : i \in {Index(data, EndInstantaneousDemand)},
           c \in {Index(data, EndCurrentSummationDelivered)},
           t \in {Index(data, EndTimeCluster)}})

\* The split function handed to the scanner: the three markers are looked
\* for one after the other, in this order, each over the whole of data.
\* The result is [advance, token], token being the length of the token
\* (data[0:token]) or -1 for a nil token.
split(data) ==
    The({IF i >= 0 THEN [advance |-> i + 24, token |-> i + 24]
         ELSE IF c >= 0 THEN [advance |-> c + 30, token |-> c + 30]
         ELSE IF t >= 0 THEN [advance |-> t + 16, token |-> t + 16]
         ELSE [advance |-> 0, token |-> -1]
         : i \in {Index(data, EndInstantaneousDemand)},
           c \in {Index(data, EndCurrentSummationDelivered)},
           t \in {Index(data, EndTimeCluster)}})

\* ------------------------------------------------------------ encoding/xml
\* The part of xml.Unmarshal the frames of the meter exercise: start tags
\* <Name>, end tags </Name> and character data, read strictly (an end tag
\* must close the element that is open, the input must not end inside an
\* element).  The caller drops Unmarshal's error, so what counts is which
\* fields are assigned before the decoder stops.
Letters ==
    {"a", "b", "c", "d", "e", "f", "g", "h", "i", "j", "k", "l", "m", "n",
     "o", "p", "q", "r", "s", "t", "u", "v", "w", "x", "y", "z",
     "A", "B", "C", "D", "E", "F", "G", "H", "I", "J", "K", "L", "M", "N",
     "O", "P", "Q", "R", "S", "T", "U", "V", "W", "X", "Y", "Z"}

\* The least position >= p of byte c in d, or Len(d) + 1.
Find(d, p, c) ==
    The({IF hits = {} THEN Len(d) + 1 ELSE Least(hits)
         : hits \in {{i \in p..Len(d) : d[i] = c}}})

\* A tag whose name starts at position s: an end tag if close.
Tag(d, s, close) ==
    The({IF e > Len(d) \/ e = s \/ \E i \in s..(e - 1) : d[i] \notin Letters
         THEN [k |-> "err"]
         ELSE [k |-> IF close THEN "end" ELSE "start",
               name |-> Join(SubSeq(d, s, e - 1)), next |-> e + 1]
         : e \in {Find(d, s, ">")}})

\* Decoder.Token at position p of d: a start element, an end element,
\* character data, the end of the input, or a syntax error.
Token(d, pos) ==
    The({IF p > Len(d) THEN [k |-> "eof"]
         ELSE IF d[p] # "<"
         THEN [k |-> "text", text |-> SubSeq(d, p, Find(d, p, "<") - 1),
               next |-> Find(d, p, "<")]
         ELSE IF p + 1 <= Len(d) /\ d[p + 1] = "/" THEN Tag(d, p + 2, TRUE)
         ELSE Tag(d, p + 1, FALSE)
         : p \in {pos}})

RECURSIVE Skip(_, _, _)
\* Decoder.Skip inside the open element name: the position after its end
\* tag, or 0 when the decoder fails first.
Skip(d, p, name) ==
    The({CASE t.k = "text" -> Skip(d, t.next, name)
           [] t.k = "start" ->
                 The({IF q = 0 THEN 0 ELSE Skip(d, q, name)
                      : q \in {Skip(d, t.next, t.name)}})
           [] t.k = "end" -> IF t.name = name THEN t.next ELSE 0
           [] OTHER -> 0
         : t \in {Token(d, p)}})

RECURSIVE ReadValue(_, _, _, _)
\* unmarshal into a string field: the character data of the open element
\* name, up to its end tag, appended to acc; elements inside it are skipped.
ReadValue(d, p, name, acc) ==
    The({CASE t.k = "text" -> ReadValue(d, t.next, name, a \o t.text)
           [] t.k = "start" ->
                 The({IF q = 0 THEN [ok |-> FALSE]
                      ELSE ReadValue(d, q, name, a)
                      : q \in {Skip(d, t.next, t.name)}})
           [] t.k = "end" ->
                 IF t.name = name
                 THEN [ok |-> TRUE, text |-> a, next |-> t.next]
                 ELSE [ok |-> FALSE]
           [] OTHER -> [ok |-> FALSE]
         : t \in {Token(d, p)}, a \in {acc}})

RECURSIVE UnmarshalFieldsKeep(_, _, _)
\* A decoding that stores a child only in a field that is still empty.
UnmarshalFieldsKeep(d, p, val) ==
    The({CASE t.k = "text" -> UnmarshalFieldsKeep(d, t.next, v)
           [] t.k = "start" /\ t.name \in (DOMAIN v) \ {"XMLName"} ->
                 The({IF r.ok
                      THEN UnmarshalFieldsKeep(d, r.next,
                               IF v[t.name] = <<>>
                               THEN [v EXCEPT ![t.name] = r.text] ELSE v)
                      ELSE v
                      : r \in {ReadValue(d, t.next, t.name, <<>>)}})
           [] t.k = "start" /\ t.name \notin (DOMAIN v) \ {"XMLName"} ->
                 The({IF q = 0 THEN v ELSE UnmarshalFieldsKeep(d, q, v)
                      : q \in {Skip(d, t.next, t.name)}})
           [] OTHER -> v
         : t \in {Token(d, p)}, v \in {val}})

RECURSIVE UnmarshalFields(_, _, _)
\* The children of the root element: a child named like a field of the
\* structure is stored in it, any other child is skipped; the loop ends at
\* the root's end tag or at the first error.
UnmarshalFields(d, p, val) ==
    The({CASE t.k = "text" -> UnmarshalFields(d, t.next, v)
           [] t.k = "start" /\ t.name \in (DOMAIN v) \ {"XMLName"} ->
                 The({IF r.ok
                      THEN UnmarshalFields(d, r.next,
                                           [v EXCEPT ![t.name] = r.text])
                      ELSE v
                      : r \in {ReadValue(d, t.next, t.name, <<>>)}})
           [] t.k = "start" /\ t.name \notin (DOMAIN v) \ {"XMLName"} ->
                 The({IF q = 0 THEN v ELSE UnmarshalFields(d, q, v)
                      : q \in {Skip(d, t.next, t.name)}})
           [] OTHER -> v
         : t \in {Token(d, p)}, v \in {val}})

RECURSIVE FirstStart(_, _)
\* Unmarshal looks for the first start element, passing over character
\* data; an end tag or the end of the input stops it with an error.
FirstStart(d, p) ==
    The({CASE t.k = "text" -> FirstStart(d, t.next)
           [] t.k = "start" -> t
           [] OTHER -> [k |-> "err"]
         : t \in {Token(d, p)}})

\* xml.Unmarshal(data, &v) for a structure v whose XMLName tag is root: the
\* value of v afterwards.  v is not cleared first: a field keeps its value
\* unless the frame holds an element for it.
Unmarshal(data, root, v) ==
    The({The({IF t.k # "start" \/ t.name # root THEN v
              ELSE UnmarshalFields(d, t.next, [v EXCEPT !.XMLName = root])
              : t \in {FirstStart(d, 1)}})
         : d \in {data}})

\* ------------------------------------------------- wide integer arithmetic
\* TLC's integers are 32 bits wide; the program's are 64 bits wide and its
\* float64 mantissas 53.  A natural number of any width is a tuple of limbs
\* in base 2^16, least significant first, without leading zero limbs
\* (<<>> is 0).
Base == 256 * 256

\* a without its leading zero limbs.
BNorm(a) ==
    The({The({IF nz = {} THEN <<>> ELSE SubSeq(x, 1, Greatest(nz))
              : nz \in {{i \in 1..Len(x) : x[i] # 0}}})
         : x \in {a}})

RECURSIVE Pow2(_)
Pow2(n) == IF n = 0 THEN 1 ELSE 2 * Pow2(n - 1)

RECURSIVE BitLenN(_)
BitLenN(n) == IF n = 0 THEN 0 ELSE 1 + BitLenN(n \div 2)

\* The number of bits of a.
BBitLen(a) ==
    The({IF x = <<>> THEN 0 ELSE 16 * (Len(x) - 1) + BitLenN(x[Len(x)])
         : x \in {a}})

BOdd(a) == The({x # <<>> /\ x[1] % 2 = 1 : x \in {a}})

RECURSIVE BMulAddFrom(_, _, _, _)
BMulAddFrom(x, i, k, c) ==
    IF i > Len(x) THEN (IF c = 0 THEN <<>> ELSE <<c>>)
    ELSE The({<<t % Base>> \o BMulAddFrom(x, i + 1, k, t \div Base)
              : t \in {x[i] * k + c}})

\* a * k + c, for 0 <= k <= 32768 and 0 <= c < 32768.
BMulAdd(a, k, c) == The({BNorm(BMulAddFrom(x, 1, k, c)) : x \in {a}})

BMulSmall(a, k) == BMulAdd(a, k, 0)

RECURSIVE BDivFrom(_, _, _, _)
\* The limbs i..1 of x divided by k, r being the remainder of the limbs
\* above them.
BDivFrom(x, i, k, r) ==
    IF i = 0 THEN [q |-> <<>>, r |-> r]
    ELSE The({The({[q |-> Append(lo.q, t \div k), r |-> lo.r]
                   : lo \in {BDivFrom(x, i - 1, k, t % k)}})
              : t \in {r * Base + x[i]}})

\* Quotient and remainder of a by k, for 1 <= k <= 32768.
BDivSmall(a, k) ==
    The({The({[q |-> BNorm(d.q), r |-> d.r]
              : d \in {BDivFrom(x, Len(x), k, 0)}})
         : x \in {a}})

Limb(x, i) == IF i <= Len(x) THEN x[i] ELSE 0

RECURSIVE BAddFrom(_, _, _, _)
BAddFrom(x, y, i, c) ==
    IF i > Len(x) /\ i > Len(y) THEN (IF c = 0 THEN <<>> ELSE <<c>>)
    ELSE The({<<t % Base>> \o BAddFrom(x, y, i + 1, t \div Base)
              : t \in {Limb(x, i) + Limb(y, i) + c}})

\* a + b
BAdd(a, b) == The({BNorm(BAddFrom(x, y, 1, 0)) : x \in {a}, y \in {b}})

RECURSIVE BSubFrom(_, _, _, _)
BSubFrom(x, y, i, b) ==
    IF i > Len(x) THEN <<>>
    ELSE The({<<(t + Base) % Base>>
                  \o BSubFrom(x, y, i + 1, IF t < 0 THEN 1 ELSE 0)
              : t \in {x[i] - Limb(y, i) - b}})

\* a - b, for a >= b.
BSub(a, b) == The({BNorm(BSubFrom(x, y, 1, 0)) : x \in {a}, y \in {b}})

RECURSIVE BLessFrom(_, _, _)
BLessFrom(x, y, i) ==
    IF i = 0 THEN FALSE
    ELSE IF x[i] # y[i] THEN x[i] < y[i] ELSE BLessFrom(x, y, i - 1)

\* a < b
BLess(a, b) ==
    The({IF Len(x) # Len(y) THEN Len(x) < Len(y)
         ELSE BLessFrom(x, y, Len(x))
         : x \in {a}, y \in {b}})

\* a * 2^s
BShl(a, s) ==
    The({IF x = <<>> THEN <<>>
         ELSE [i \in 1..(s \div 16) |-> 0] \o BMulSmall(x, Pow2(s % 16))
         : x \in {a}})

\* x * l for a limb l
BMulLimb(x, l) ==
    BAdd(BMulSmall(x, l % 256), BMulSmall(BMulSmall(x, l \div 256), 256))

RECURSIVE BMulFrom(_, _, _)
BMulFrom(x, y, i) ==
    IF i > Len(y) THEN <<>>
    ELSE BAdd(BMulLimb(x, y[i]), BShl(BMulFrom(x, y, i + 1), 16))

\* a * b
BMul(a, b) == The({BMulFrom(x, y, 1) : x \in {a}, y \in {b}})

\* floor(a / 2^s), and whether a non-zero bit was shifted out.
BShr(a, s) ==
    The({The({[q |-> d.q,
               sticky |-> d.r # 0
                          \/ \E i \in 1..Min(s \div 16, Len(x)) : x[i] # 0]
              : d \in {BDivSmall(SubSeq(x, (s \div 16) + 1, Len(x)),
                                 Pow2(s % 16))}})
         : x \in {a}})

\* The quotient q = floor(a / 2^(s-1)) with its sticky bit, halved and
\* rounded to the nearest integer, ties to even.
BRoundHalf(y, sticky) ==
    The({IF BOdd(y.q) /\ (y.sticky \/ sticky \/ BOdd(h))
         THEN BAdd(h, <<1>>) ELSE h
         : h \in {BShr(y.q, 1).q}})

\* a / 2^s rounded to the nearest integer, ties to even; sticky says that
\* the exact value lies above a.
BShrRound(a, s, sticky) ==
    IF s = 0 THEN a
    ELSE The({BRoundHalf(y, sticky) : y \in {BShr(a, s - 1)}})

RECURSIVE BDigits(_)
BDigits(x) ==
    IF x = <<>> THEN ""
    ELSE The({BDigits(d.q) \o ToString(d.r) : d \in {BDivSmall(x, 10)}})

\* The decimal numeral of a.
BDecimal(a) == The({IF x = <<>> THEN "0" ELSE BDigits(x) : x \in {a}})

\* ------------------------------------------------------------- float64
\* An IEEE 754 double: NaN, an infinity, or (-1)^neg * m * 2^e with m = 0 or
\* 2^52 <= m < 2^53.  Every operation rounds its exact result to the
\* nearest double, ties to even.  (The exponents of the program's values
\* stay far inside the double's range.)
F64NaN == [cls |-> "nan", neg |-> FALSE, m |-> <<>>, e |-> 0]
F64Inf(neg) == [cls |-> "inf", neg |-> neg, m |-> <<>>, e |-> 0]
F64Zero(neg) == [cls |-> "fin", neg |-> neg, m |-> <<>>, e |-> 0]
F64(neg, m, e) == [cls |-> "fin", neg |-> neg, m |-> m, e |-> e]

\* The mantissa r of len bits (len = 53 or 54, the latter when rounding
\* carried) as a double of exponent e for 53 bits.
F64Carry(neg, r, e) ==
    IF BBitLen(r) = 54 THEN F64(neg, BShr(r, 1).q, e + 1) ELSE F64(neg, r, e)

\* The double nearest to (-1)^neg * (a + a fraction that is non-zero iff
\* sticky) * 2^e.  A sticky a has more than 54 bits.
F64Round(neg, a, e, sticky) ==
    The({IF x = <<>> THEN F64Zero(neg)
         ELSE IF len <= 53 THEN F64(neg, BShl(x, 53 - len), e - (53 - len))
         ELSE The({F64Carry(neg, r, e + (len - 53))
                   : r \in {BShrRound(x, len - 53, sticky)}})
         : x \in {a}, len \in {BBitLen(a)}})

\* float64(n) for the integer n = (-1)^neg * mag.
F64FromInt(n) == The({F64Round(i.neg, i.mag, 0, FALSE) : i \in {n}})

\* a * b
F64Mul(a, b) ==
    The({IF x.cls = "nan" \/ y.cls = "nan" THEN F64NaN
         ELSE IF x.cls = "inf" \/ y.cls = "inf"
         THEN IF (x.cls = "fin" /\ x.m = <<>>) \/ (y.cls = "fin" /\ y.m = <<>>)
              THEN F64NaN
              ELSE F64Inf(x.neg # y.neg)
         ELSE F64Round(x.neg # y.neg, BMul(x.m, y.m), x.e + y.e, FALSE)
         : x \in {a}, y \in {b}})

\* One more quotient bit of r / y, for r < y: d is [q, r].
DivBit(d, y) ==
    The({IF BLess(r2, y) THEN [q |-> BMulSmall(d.q, 2), r |-> r2]
         ELSE [q |-> BMulAdd(d.q, 2, 1), r |-> BSub(r2, y)]
         : r2 \in {BMulSmall(d.r, 2)}})

RECURSIVE DivBits(_, _, _)
\* n more quotient bits.
DivBits(d, y, n) ==
    IF n = 0 THEN d
    ELSE The({DivBits(d2, y, n - 1) : d2 \in {DivBit(d, y)}})

RECURSIVE DivBytes(_, _, _)
\* 8 * n more quotient bits.
DivBytes(d, y, n) ==
    IF n = 0 THEN d
    ELSE The({DivBytes(d2, y, n - 1) : d2 \in {DivBits(d, y, 8)}})

\* floor(x * 2^56 / y) and the remainder, for mantissas x and y of 53 bits.
DivMantissa(x, y) ==
    IF BLess(x, y) THEN DivBytes([q |-> <<>>, r |-> x], y, 7)
    ELSE DivBytes([q |-> <<1>>, r |-> BSub(x, y)], y, 7)

\* a / b
F64Div(a, b) ==
    The({IF x.cls = "nan" \/ y.cls = "nan" THEN F64NaN
         ELSE IF x.cls = "inf"
         THEN IF y.cls = "inf" THEN F64NaN ELSE F64Inf(x.neg # y.neg)
         ELSE IF y.cls = "inf" THEN F64Zero(x.neg # y.neg)
         ELSE IF y.m = <<>>
         THEN IF x.m = <<>> THEN F64NaN ELSE F64Inf(x.neg # y.neg)
         ELSE IF x.m = <<>> THEN F64Zero(x.neg # y.neg)
         ELSE The({F64Round(x.neg # y.neg, d.q, x.e - y.e - 56, d.r # <<>>)
                   : d \in {DivMantissa(x.m, y.m)}})
         : x \in {a}, y \in {b}})

\* The integer part of a finite x, as a magnitude.
F64Trunc(x) ==
    IF x.m = <<>> THEN <<>>
    ELSE IF x.e >= 0 THEN BShl(x.m, x.e)
    ELSE BShr(x.m, -x.e).q

MinInt64Text == "-9223372036854775808"
MaxInt64Text == "9223372036854775807"

\* The numeral of the int64 (-1)^neg * t, for t of at most 63 bits.
Int64Text(neg, t) ==
    IF neg /\ t # <<>> THEN "-" \o BDecimal(t) ELSE BDecimal(t)

\* fmt.Sprintf("%v", int(a)): the decimal numerals the conversion can give.
\* A float64 that is NaN, infinite or beyond the int64 range converts to an
\* implementation-dependent value: the lowest int64 on amd64; on arm64 the
\* nearest int64, and 0 for NaN.
IntText(a) ==
    The({IF x.cls = "nan" THEN {MinInt64Text, "0"}
         ELSE IF x.cls = "inf"
         THEN (IF x.neg THEN {MinInt64Text} ELSE {MinInt64Text, MaxInt64Text})
         ELSE The({IF BBitLen(t) > 63
                   THEN (IF x.neg THEN {MinInt64Text}
                         ELSE {MinInt64Text, MaxInt64Text})
                   ELSE {Int64Text(x.neg, t)}
                   : t \in {F64Trunc(x)}})
         : x \in {a}})

RECURSIVE ZeroPad(_, _)
ZeroPad(digits, n) ==
    IF Len(digits) >= n THEN digits ELSE ZeroPad("0" \o digits, n)

\* The integer nearest to x * 1000 (ties to even), as a magnitude.
F64Thousandths(x) ==
    IF x.e >= 0 THEN BShl(BMulSmall(x.m, 1000), x.e)
    ELSE BShrRound(BMulSmall(x.m, 1000), -x.e, FALSE)

\* fmt.Sprintf("%.3f", a): the exact value of a, rounded to the nearest
\* thousandth (ties to even), with three digits after the point.
FormatF3(a) ==
    The({IF x.cls = "nan" THEN "NaN"
         ELSE IF x.cls = "inf" THEN (IF x.neg THEN "-Inf" ELSE "+Inf")
         ELSE The({(IF x.neg THEN "-" ELSE "") \o BDecimal(w.q) \o "."
                       \o ZeroPad(ToString(w.r), 3)
                   : w \in {BDivSmall(F64Thousandths(x), 1000)}})
         : x \in {a}})

\* ------------------------------------------------------------- validator
HexDigits ==
    {"0", "1", "2", "3", "4", "5", "6", "7", "8", "9",
     "a", "b", "c", "d", "e", "f", "A", "B", "C", "D", "E", "F"}

AllHex(s) == Len(s) >= 1 /\ \A i \in 1..Len(s) : s[i] \in HexDigits

\* The tag "hexadecimal": the expression ^(0[xX])?[0-9a-fA-F]+$
IsHexadecimal(s) ==
    \/ AllHex(s)
    \/ /\ Len(s) >= 3
       /\ s[1] = "0"
       /\ s[2] \in {"x", "X"}
       /\ AllHex(SubSeq(s, 3, Len(s)))

\* validate:"required,hexadecimal" on a string field
ValidField(s) == s # <<>> /\ IsHexadecimal(s)

\* v.Struct(instantaneousDemand) returns nil
ValidInstantaneousDemand(v) ==
    ValidField(v.Demand) /\ ValidField(v.Multiplier) /\ ValidField(v.Divisor)

\* v.Struct(currentSummationDelivered) returns nil
ValidCurrentSummationDelivered(v) ==
    /\ ValidField(v.SummationDelivered)
    /\ ValidField(v.SummationReceived)
    /\ ValidField(v.Multiplier)
    /\ ValidField(v.Divisor)

\* --------------------------------------------------------------- strconv
LowerDigits ==
    <<"0", "1", "2", "3", "4", "5", "6", "7", "8", "9", "a", "b", "c", "d",
      "e", "f", "g", "h", "i", "j", "k", "l", "m", "n", "o", "p", "q", "r",
      "s", "t", "u", "v", "w", "x", "y", "z">>
UpperDigits ==
    <<"0", "1", "2", "3", "4", "5", "6", "7", "8", "9", "A", "B", "C", "D",
      "E", "F", "G", "H", "I", "J", "K", "L", "M", "N", "O", "P", "Q", "R",
      "S", "T", "U", "V", "W", "X", "Y", "Z">>

\* The value of a digit, 36 for a byte that is no digit in any base.
DigitValue(c) ==
    IF \E i \in 1..36 : LowerDigits[i] = c
    THEN (CHOOSE i \in 1..36 : LowerDigits[i] = c) - 1
    ELSE IF \E i \in 1..36 : UpperDigits[i] = c
    THEN (CHOOSE i \in 1..36 : UpperDigits[i] = c) - 1
    ELSE 36

RECURSIVE ParseDigits(_, _, _, _)
\* The digit loop of ParseUint over s from position p: the value of s in
\* the base, a syntax error at the first byte that is no digit of the
\* base, a range error when the value leaves 64 bits.
ParseDigits(s, p, base, n) ==
    IF p > Len(s) THEN [err |-> "", mag |-> n]
    ELSE IF DigitValue(s[p]) >= base THEN [err |-> "syntax", mag |-> <<>>]
    ELSE The({IF BBitLen(n1) > 64 THEN [err |-> "range", mag |-> <<>>]
              ELSE ParseDigits(s, p + 1, base, n1)
              : n1 \in {BMulAdd(n, base, DigitValue(s[p]))}})

\* strconv.ParseUint(s, 0, 64) over s from position p: base 0 takes the
\* base from the prefix, 0x 16, 0b 2, 0o 8, any other leading 0 8, and 10
\* without a leading 0.
ParseUint(s, p) ==
    IF p > Len(s) THEN [err |-> "syntax", mag |-> <<>>]
    ELSE IF s[p] # "0" THEN ParseDigits(s, p, 10, <<>>)
    ELSE IF Len(s) - p + 1 >= 3 /\ s[p + 1] \in {"b", "B"}
    THEN ParseDigits(s, p + 2, 2, <<>>)
    ELSE IF Len(s) - p + 1 >= 3 /\ s[p + 1] \in {"o", "O"}
    THEN ParseDigits(s, p + 2, 8, <<>>)
    ELSE IF Len(s) - p + 1 >= 3 /\ s[p + 1] \in {"x", "X"}
    THEN ParseDigits(s, p + 2, 16, <<>>)
    ELSE ParseDigits(s, p + 1, 8, <<>>)

\* 2^63
Two63 == <<0, 0, 0, 32768>>

\* strconv.ParseInt(text, 0, 64): [err, neg, mag], err "" for a nil error.
ParseInt(text) ==
    The({IF s = <<>> THEN [err |-> "syntax", neg |-> FALSE, mag |-> <<>>]
         ELSE The({IF u.err # ""
                   THEN [err |-> u.err, neg |-> FALSE, mag |-> <<>>]
                   ELSE IF BBitLen(u.mag) > 63
                           /\ ~(s[1] = "-" /\ u.mag = Two63)
                   THEN [err |-> "range", neg |-> FALSE, mag |-> <<>>]
                   ELSE [err |-> "", neg |-> s[1] = "-" /\ u.mag # <<>>,
                         mag |-> u.mag]
                   : u \in {ParseUint(s, IF s[1] \in {"+", "-"} THEN 2
                                         ELSE 1)}})
         : s \in {text}})

\* ------------------------------------------------------------ conversions
\* 2^32
Two32 == <<0, 0, 1>>

\* The low 32 bits u of an int64, read as two's complement.
Signed32(u) ==
    IF BBitLen(u) = 32 THEN [neg |-> TRUE, mag |-> BSub(Two32, u)]
    ELSE [neg |-> FALSE, mag |-> u]

\* A conversion that keeps all 64 bits of n.
Int32Wide(n) == n

\* int32(n) of the int64 n.
Int32(n) ==
    The({Signed32(IF n.neg /\ low # <<>> THEN BSub(Two32, low) ELSE low)
         : low \in {BNorm(SubSeq(n.mag, 1, Min(2, Len(n.mag))))}})

F64Thousand == F64FromInt([neg |-> FALSE, mag |-> <<1000>>])

\* float64(int32(i))*float64(mult)/float64(div)
Scale(i, mult, div) ==
    F64Div(F64Mul(F64FromInt(Int32(i)), F64FromInt(mult)), F64FromInt(div))

\* fmt.Sprintf("%v", int(float64(int32(i))*float64(mult)/float64(div)*1000)):
\* the set of the texts the conversion to int can give.
PowerText(i, mult, div) == IntText(F64Mul(Scale(i, mult, div), F64Thousand))

\* An energy text that leaves the divisor out.
EnergyTextUndivided(d, mult, div) ==
    FormatF3(F64Mul(F64FromInt(Int32(d)), F64FromInt(mult)))

\* fmt.Sprintf("%.3f", float64(int32(d))*float64(mult)/float64(div))
EnergyText(d, mult, div) == FormatF3(Scale(d, mult, div))

\* ------------------------------------------------------------ the program
VARIABLES
    port,       \* s: the bytes the serial port delivers, then a run of "0"
    sizes,      \* the most bytes one Read of the port returns: the choices
    rd,         \* how many bytes of stream the scanner has read
    buflen,     \* len(s.buf) of the scanner
    start,      \* s.start: the first unprocessed byte of the buffer
    end,        \* s.end: the end of the data in the buffer
    err,        \* s.err: "" for nil, "EOF", "ErrTooLong"
    pc,         \* "scan" in the loop, "done" after it, "fatal" after log.Fatal
    frames,     \* history: the tokens of the scanner, as stream offsets
    instantaneousDemand,
    currentSummationDelivered,
    demand, delivered, received,
    published,  \* history: the Publish calls of publishPower, publishEnergy
    logs        \* history: the log.Print and log.Fatal calls

vars ==
    <<port, sizes, rd, buflen, start, end, err, pc, frames,
      instantaneousDemand, currentSummationDelivered, demand, delivered,
      received, published, logs>>

\* The bytes the serial port delivers, in order.
stream ==
    IF port.zeros = 0 THEN port.bytes
    ELSE port.bytes \o [i \in 1..port.zeros |-> "0"]

scanner == <<rd, buflen, start, end, err>>

\* var instantaneousDemand InstantaneousDemand
ZeroInstantaneousDemand ==
    [XMLName |-> "", DeviceMacId |-> <<>>, MeterMacId |-> <<>>,
     TimeStamp |-> <<>>, Demand |-> <<>>, Multiplier |-> <<>>,
     Divisor |-> <<>>, DigitsRight |-> <<>>, DigitsLeft |-> <<>>,
     SuppressLeadingZero |-> <<>>]

\* var currentSummationDelivered CurrentSummationDelivered
ZeroCurrentSummationDelivered ==
    [XMLName |-> "", DeviceMacId |-> <<>>, MeterMacId |-> <<>>,
     TimeStamp |-> <<>>, SummationDelivered |-> <<>>,
     SummationReceived |-> <<>>, Multiplier |-> <<>>, Divisor |-> <<>>,
     DigitsRight |-> <<>>, DigitsLeft |-> <<>>,
     SuppressLeadingZero |-> <<>>]

PowerTopic == "homeassistant/sensor/meter_power_demand/state"
DeliveredTopic == "homeassistant/sensor/meter_total_energy_delivered/state"
ReceivedTopic == "homeassistant/sensor/meter_total_energy_received/state"

\* The Publish calls of publishPower(m, text) while frame k is handled.
publishPower(text, k) ==
    IF text # ""
    THEN <<[topic |-> PowerTopic, payload |-> text, frame |-> k]>>
    ELSE <<>>

\* The Publish calls of publishEnergy(m, d, r) while frame k is handled.
publishEnergy(d, r, k) ==
    (IF d # ""
     THEN <<[topic |-> DeliveredTopic, payload |-> d, frame |-> k]>>
     ELSE <<>>)
    \o (IF r # ""
        THEN <<[topic |-> ReceivedTopic, payload |-> r, frame |-> k]>>
        ELSE <<>>)

\* ------------------------------------------------------------ the scanner
\* s.buf[s.start:s.end]: the buffer always holds the last bytes read.
Data == SubSeq(stream, rd - (end - start) + 1, rd)

\* The result of the split call that opens an iteration of Scan; split is
\* called when the buffer holds data or the input has ended.
Tok ==
    IF end > start \/ err # "" THEN The({split(data) : data \in {Data}})
    ELSE [advance |-> 0, token |-> -1]

\* scanner.Text() of the token tok
Text(tok) == SubSeq(Data, 1, tok.token)

\* The number of the frame being handled.
FrameNo == Len(frames) + 1

\* Scan returns true: split has found a token, which is cut off the buffer
\* and recorded.
TakeToken(tok) ==
    /\ pc = "scan"
    /\ tok.token >= 0
    /\ start' = start + tok.advance
    /\ frames' = Append(frames, [from |-> rd - (end - start),
                                 to |-> rd - (end - start) + tok.token])
    /\ UNCHANGED <<port, sizes, rd, buflen, end, err>>

\* Before a read Scan moves the data to the front of the buffer when the
\* buffer is full or more than half of it is free at the front ...
ShiftedEnd ==
    IF start > 0 /\ (end = buflen \/ start > buflen \div 2)
    THEN end - start ELSE end
ShiftedStart ==
    IF start > 0 /\ (end = buflen \/ start > buflen \div 2)
    THEN 0 ELSE start

\* ... and doubles a full buffer, up to the maximum token size.
MaxScanTokenSize == 65536
GrownLen ==
    IF ShiftedEnd = buflen THEN Min(2 * buflen, MaxScanTokenSize)
    ELSE buflen

\* Scan has no token and may read: no error yet, and room to grow.
MayRead ==
    /\ pc = "scan"
    /\ err = ""
    /\ ~(ShiftedEnd = buflen /\ buflen >= MaxScanTokenSize)
    /\ Tok.token < 0

\* s.r.Read(s.buf[s.end:len(s.buf)]) returns n > 0 bytes.
Read(n) ==
    /\ n >= 1
    /\ n <= GrownLen - ShiftedEnd
    /\ n <= Len(stream) - rd
    /\ rd' = rd + n
    /\ buflen' = GrownLen
    /\ start' = ShiftedStart
    /\ end' = ShiftedEnd + n
    /\ UNCHANGED <<port, sizes, err, pc, frames, instantaneousDemand,
                   currentSummationDelivered, demand, delivered, received,
                   published, logs>>

\* The port delivers what it has: a short read, or as many bytes as the
\* buffer takes.
ScanRead ==
    /\ MayRead
    /\ \E c \in sizes :
           Read(Min(c, Min(GrownLen - ShiftedEnd, Len(stream) - rd)))

\* The buffer is full at its greatest size and holds no token: Scan sets
\* ErrTooLong and returns false.  The loop ends; scanner.Err() is never
\* looked at, so scanSerial and main return as at the end of the input.
ScanTooLong ==
    /\ pc = "scan"
    /\ err = ""
    /\ ShiftedEnd = buflen
    /\ buflen >= MaxScanTokenSize
    /\ Tok.token < 0
    /\ err' = "ErrTooLong"
    /\ pc' = "done"
    /\ start' = ShiftedStart
    /\ end' = ShiftedEnd
    /\ UNCHANGED <<port, sizes, rd, buflen, frames, instantaneousDemand,
                   currentSummationDelivered, demand, delivered, received,
                   published, logs>>

\* The stream has ended: Read returns 0, io.EOF.
ScanEOF ==
    /\ MayRead
    /\ rd = Len(stream)
    /\ err' = "EOF"
    /\ buflen' = GrownLen
    /\ start' = ShiftedStart
    /\ end' = ShiftedEnd
    /\ UNCHANGED <<port, sizes, rd, pc, frames, instantaneousDemand,
                   currentSummationDelivered, demand, delivered, received,
                   published, logs>>

\* After the end of the input split finds no token in what is left: Scan
\* returns false, the loop ends and scanSerial and main return.
ScanStop ==
    /\ pc = "scan"
    /\ err # ""
    /\ Tok.token < 0
    /\ pc' = "done"
    /\ start' = 0
    /\ end' = 0
    /\ UNCHANGED <<port, sizes, rd, buflen, err, frames,
                   instantaneousDemand, currentSummationDelivered, demand,
                   delivered, received, published, logs>>

\* ------------------------------------------------------------ the loop body
Skipping == "Skipping incomplete XML:"
ErrorParsing == "ERROR parsing XML:"
Unexpected == "Unexpected case"

\* The calls of the loop body once the record v has passed the validation:
\* log.Fatal when a required field does not parse, else the conversion
\* and the publish call.
ConvertInstantaneousDemand(v) ==
    \E i \in {ParseInt(v.Demand)}, mult \in {ParseInt(v.Multiplier)},
       div \in {ParseInt(v.Divisor)} :
        IF i.err # "" \/ mult.err # "" \/ div.err # ""
        THEN /\ logs' = Append(logs, [msg |-> ErrorParsing,
                                      frame |-> FrameNo])
             /\ pc' = "fatal"
             /\ UNCHANGED <<demand, published>>
        ELSE \E text \in PowerText(i, mult, div) :
                /\ demand' = text
                /\ published' = published \o publishPower(text, FrameNo)
                /\ UNCHANGED <<pc, logs>>

\* A case 'I' that ends the process when the validation fails.
DecodeInstantaneousDemandFatal(text) ==
    /\ text[2] = "I"
    /\ \E v \in {Unmarshal(text, "InstantaneousDemand",
                           instantaneousDemand)} :
           /\ instantaneousDemand' = v
           /\ IF ~ValidInstantaneousDemand(v)
              THEN /\ logs' = Append(logs, [msg |-> Skipping,
                                            frame |-> FrameNo])
                   /\ pc' = "fatal"
                   /\ UNCHANGED <<demand, published>>
              ELSE ConvertInstantaneousDemand(v)
    /\ UNCHANGED <<currentSummationDelivered, delivered, received>>

\* case 'I' with the frame text
DecodeInstantaneousDemand(text) ==
    /\ text[2] = "I"
    /\ \E v \in {Unmarshal(text, "InstantaneousDemand",
                           instantaneousDemand)} :
           /\ instantaneousDemand' = v
           /\ IF ~ValidInstantaneousDemand(v)
              THEN /\ logs' = Append(logs, [msg |-> Skipping,
                                            frame |-> FrameNo])
                   /\ UNCHANGED <<pc, demand, published>>
              ELSE ConvertInstantaneousDemand(v)
    /\ UNCHANGED <<currentSummationDelivered, delivered, received>>

\* One iteration of the loop on an instantaneous demand frame.
HandleInstantaneousDemand ==
    \E tok \in {Tok} :
        /\ TakeToken(tok)
        /\ \E text \in {Text(tok)} : DecodeInstantaneousDemand(text)

ConvertCurrentSummationDelivered(v) ==
    \E d \in {ParseInt(v.SummationDelivered)},
       r \in {ParseInt(v.SummationReceived)},
       mult \in {ParseInt(v.Multiplier)}, div \in {ParseInt(v.Divisor)} :
        IF d.err # "" \/ r.err # "" \/ mult.err # "" \/ div.err # ""
        THEN /\ logs' = Append(logs, [msg |-> ErrorParsing,
                                      frame |-> FrameNo])
             /\ pc' = "fatal"
             /\ UNCHANGED <<delivered, received, published>>
        ELSE /\ delivered' = EnergyText(d, mult, div)
             /\ received' = EnergyText(r, mult, div)
             /\ published' = published
                    \o publishEnergy(delivered', received', FrameNo)
             /\ UNCHANGED <<pc, logs>>

\* case 'C' with the frame text
DecodeCurrentSummationDelivered(text) ==
    /\ text[2] = "C"
    /\ \E v \in {Unmarshal(text, "CurrentSummationDelivered",
                           currentSummationDelivered)} :
           /\ currentSummationDelivered' = v
           /\ IF ~ValidCurrentSummationDelivered(v)
              THEN /\ logs' = Append(logs, [msg |-> Skipping,
                                            frame |-> FrameNo])
                   /\ UNCHANGED <<pc, delivered, received, published>>
              ELSE ConvertCurrentSummationDelivered(v)
    /\ UNCHANGED <<instantaneousDemand, demand>>

\* One iteration of the loop on a summation frame.
HandleCurrentSummationDelivered ==
    \E tok \in {Tok} :
        /\ TakeToken(tok)
        /\ \E text \in {Text(tok)} : DecodeCurrentSummationDelivered(text)

\* A case 'T' that falls into the decoding of a demand record.
HandleTimeClusterDecoded ==
    \E tok \in {Tok} :
        /\ TakeToken(tok)
        /\ Text(tok)[2] = "T"
        /\ instantaneousDemand' =
               Unmarshal(Text(tok), "InstantaneousDemand",
                         instantaneousDemand)
        /\ logs' = Append(logs, [msg |-> Skipping, frame |-> FrameNo])
        /\ UNCHANGED <<pc, currentSummationDelivered, demand, delivered,
                       received, published>>

\* case 'T': ignored
HandleTimeCluster ==
    \E tok \in {Tok} :
        /\ TakeToken(tok)
        /\ Text(tok)[2] = "T"
        /\ UNCHANGED <<pc, instantaneousDemand, currentSummationDelivered,
                       demand, delivered, received, published, logs>>

\* A default case that logs with log.Print and goes on.
HandleUnexpectedLogged ==
    \E tok \in {Tok} :
        /\ TakeToken(tok)
        /\ Text(tok)[2] \notin {"I", "C", "T"}
        /\ logs' = Append(logs, [msg |-> Unexpected, frame |-> FrameNo])
        /\ UNCHANGED <<pc, instantaneousDemand, currentSummationDelivered,
                       demand, delivered, received, published>>

\* default: log.Fatal("Unexpected case")
HandleUnexpected ==
    \E tok \in {Tok} :
        /\ TakeToken(tok)
        /\ Text(tok)[2] \notin {"I", "C", "T"}
        /\ logs' = Append(logs, [msg |-> Unexpected, frame |-> FrameNo])
        /\ pc' = "fatal"
        /\ UNCHANGED <<instantaneousDemand, currentSummationDelivered,
                       demand, delivered, received, published>>

\* ------------------------------------------------------------- the inputs
\* The element names of the meter's records, as bytes.
N_InstantaneousDemand ==
    <<"I", "n", "s", "t", "a", "n", "t", "a", "n", "e", "o", "u", "s", "D",
      "e", "m", "a", "n", "d">>
N_CurrentSummationDelivered ==
    <<"C", "u", "r", "r", "e", "n", "t", "S", "u", "m", "m", "a", "t", "i",
      "o", "n", "D", "e", "l", "i", "v", "e", "r", "e", "d">>
N_TimeCluster == <<"T", "i", "m", "e", "C", "l", "u", "s", "t", "e", "r">>
N_DeviceMacId ==
    <<"D", "e", "v", "i", "c", "e", "M", "a", "c", "I", "d">>
N_MeterMacId ==
    <<"M", "e", "t", "e", "r", "M", "a", "c", "I", "d">>
N_UTCTime == <<"U", "T", "C", "T", "i", "m", "e">>
N_Demand == <<"D", "e", "m", "a", "n", "d">>
N_Multiplier == <<"M", "u", "l", "t", "i", "p", "l", "i", "e", "r">>
N_Divisor == <<"D", "i", "v", "i", "s", "o", "r">>
N_SummationDelivered ==
    <<"S", "u", "m", "m", "a", "t", "i", "o", "n", "D", "e", "l", "i", "v",
      "e", "r", "e", "d">>
N_SummationReceived ==
    <<"S", "u", "m", "m", "a", "t", "i", "o", "n", "R", "e", "c", "e", "i",
      "v", "e", "d">>

\* Field texts.
TxtFFFFFFFF == <<"0", "x", "F", "F", "F", "F", "F", "F", "F", "F">>
Txt0000270F == <<"0", "x", "0", "0", "0", "0", "2", "7", "0", "F">>
TxtZero == <<"0", "0", "0", "0", "0", "0", "0", "0">>
TxtOctal == <<"0", "0", "0", "0", "0", "0", "1", "0">>
TxtNoPrefix == <<"F", "F">>
TxtNotHex == <<"0", "x", "1", "G">>
TxtOne == <<"0", "x", "1">>
TxtTwo == <<"0", "x", "2">>
TxtThree == <<"0", "x", "3">>
Txt3E8 == <<"0", "x", "3", "E", "8">>
TxtDeviceMacId ==
    <<"0", "x", "d", "8", "d", "5", "b", "9", "0", "0", "0", "0", "0", "0",
      "b", "3", "d", "0">>
TxtMeterMacId ==
    <<"0", "x", "0", "0", "0", "7", "8", "1", "0", "0", "0", "0", "8", "1",
      "f", "d", "0", "b">>
TxtUTCTime == <<"0", "x", "1", "c", "5", "3", "1", "d", "4", "8">>

CRLF == <<"\r", "\n">>

Elem(name, text) ==
    <<"<">> \o name \o <<">">> \o text \o <<"<", "/">> \o name \o <<">">>

RECURSIVE Elems(_)
Elems(fields) ==
    IF fields = <<>> THEN <<>>
    ELSE Elem(fields[1][1], fields[1][2]) \o CRLF \o Elems(Tail(fields))

\* A record as the meter sends it: the root element with one line per
\* field, closed by the end tag and a line break.
Record(name, fields) ==
    <<"<">> \o name \o <<">">> \o CRLF \o Elems(fields)
    \o <<"<", "/">> \o name \o <<">">> \o CRLF

Demand(d, m, v) ==
    Record(N_InstantaneousDemand,
           <<<<N_Demand, d>>, <<N_Multiplier, m>>, <<N_Divisor, v>>>>)

Summation(d, r, m, v) ==
    Record(N_CurrentSummationDelivered,
           <<<<N_SummationDelivered, d>>, <<N_SummationReceived, r>>,
             <<N_Multiplier, m>>, <<N_Divisor, v>>>>)

TimeCluster ==
    Record(N_TimeCluster,
           <<<<N_DeviceMacId, TxtDeviceMacId>>,
             <<N_MeterMacId, TxtMeterMacId>>, <<N_UTCTime, TxtUTCTime>>>>)

\* The records the meter sends in the model: demand records that convert,
\* that fail the validation, that fail to parse, one with a zero divisor
\* and one without its Demand element; a summation record; a time
\* cluster record; and a time cluster record after a stray line break,
\* whose second byte is no discriminant.
Records ==
    {Demand(TxtFFFFFFFF, TxtOne, TxtOne),
     Demand(TxtTwo, TxtOne, TxtThree),
     Demand(TxtOctal, TxtOne, TxtOne),
     Demand(TxtNoPrefix, TxtOne, TxtOne),
     Demand(TxtNotHex, TxtOne, TxtOne),
     Demand(TxtOne, TxtOne, TxtZero),
     Record(N_InstantaneousDemand,
            <<<<N_Multiplier, TxtOne>>, <<N_Divisor, TxtOne>>>>),
     Summation(Txt0000270F, TxtZero, TxtOne, Txt3E8),
     TimeCluster,
     CRLF \o Record(N_TimeCluster, <<>>)}

RECURSIVE Streams(_)
\* The streams of at most n records.
Streams(n) ==
    IF n = 0 THEN {<<>>}
    ELSE LET shorter == Streams(n - 1)
         IN  shorter \cup {s \o r : s \in shorter, r \in Records}

\* A record whose end never comes: the opening tag and a field that goes
\* on beyond the greatest token size.
Endless ==
    [bytes |-> <<"<">> \o N_InstantaneousDemand \o <<">">> \o CRLF
               \o <<"<">> \o N_Demand \o <<">">>,
     zeros |-> MaxScanTokenSize]

\* A record cut off before its end tag.
CutOff ==
    <<"<">> \o N_InstantaneousDemand \o <<">">> \o CRLF
    \o Elem(N_Demand, TxtOne) \o CRLF

\* A time cluster record of one field.
ShortTimeCluster == Record(N_TimeCluster, <<<<N_UTCTime, TxtUTCTime>>>>)

\* Streams beside those of Streams(n): a stream that ends inside a
\* record, alone and after a record; three records of which the last
\* two arrive in one read when the reads fill the buffer.
OtherStreams ==
    {CutOff,
     Demand(TxtFFFFFFFF, TxtOne, TxtOne) \o CutOff,
     Summation(Txt0000270F, TxtZero, TxtOne, Txt3E8) \o ShortTimeCluster
         \o Demand(TxtFFFFFFFF, TxtOne, TxtOne)}

\* ------------------------------------------------------- the specification
InitProgram ==
    /\ rd = 0
    /\ buflen = InitialBufSize
    /\ start = 0
    /\ end = 0
    /\ err = ""
    /\ pc = "scan"
    /\ frames = <<>>
    /\ instantaneousDemand = ZeroInstantaneousDemand
    /\ currentSummationDelivered = ZeroCurrentSummationDelivered
    /\ demand = ""
    /\ delivered = ""
    /\ received = ""
    /\ published = <<>>
    /\ logs = <<>>

\* The port delivers a stream of records in reads of any of the two
\* sizes, or the endless record in reads that fill the buffer.
Init ==
    /\ \/ /\ port \in {[bytes |-> s, zeros |-> 0] :
                          s \in Streams(MaxRecords) \cup OtherStreams}
          /\ sizes = {ShortRead, MaxScanTokenSize}
       \/ /\ port = Endless
          /\ sizes = {MaxScanTokenSize}
    /\ InitProgram

Next ==
    \/ ScanRead
    \/ ScanEOF
    \/ ScanTooLong
    \/ ScanStop
    \/ HandleInstantaneousDemand
    \/ HandleCurrentSummationDelivered
    \/ HandleTimeCluster
    \/ HandleUnexpected

Spec == Init /\ [][Next]_vars

\* ------------------------------------------------------ frames and records
\* The bytes of the k-th frame the scanner has returned.
FrameText(k) == SubSeq(stream, frames[k].from + 1, frames[k].to)

\* The handling of frame k has called Publish.
PublishedFor(k) == \E j \in 1..Len(published) : published[j].frame = k

\* The handling of frame k has logged msg.
LoggedFor(k, msg) ==
    \E j \in 1..Len(logs) : logs[j] = [msg |-> msg, frame |-> k]

\* The record a frame holds by itself: the frame decoded into an empty
\* structure.
DemandRecord(text) ==
    Unmarshal(text, "InstantaneousDemand", ZeroInstantaneousDemand)
SummationRecord(text) ==
    Unmarshal(text, "CurrentSummationDelivered",
              ZeroCurrentSummationDelivered)

\* A demand (summation) frame whose record has all its required fields,
\* each of them hexadecimal.
CompleteDemand(text) ==
    text[2] = "I" /\ ValidInstantaneousDemand(DemandRecord(text))
CompleteSummation(text) ==
    text[2] = "C" /\ ValidCurrentSummationDelivered(SummationRecord(text))

\* A demand or summation frame whose record misses a required field or has
\* a required field that is not hexadecimal.
IncompleteRecord(text) ==
    \/ text[2] = "I" /\ ~ValidInstantaneousDemand(DemandRecord(text))
    \/ text[2] = "C" /\ ~ValidCurrentSummationDelivered(SummationRecord(text))

\* The field text is a numeral of the value zero, of the value one.
IsZero(field) ==
    The({n.err = "" /\ n.mag = <<>> : n \in {ParseInt(field)}})
IsOne(field) ==
    The({n.err = "" /\ ~n.neg /\ n.mag = <<1>> : n \in {ParseInt(field)}})

\* The value of a field text read as a hexadecimal numeral, with or
\* without the prefix 0x.
HexValue(field) ==
    IF Len(field) >= 3 /\ field[1] = "0" /\ field[2] \in {"x", "X"}
    THEN [err |-> "", neg |-> FALSE,
          mag |-> ParseDigits(field, 3, 16, <<>>).mag]
    ELSE [err |-> "", neg |-> FALSE,
          mag |-> ParseDigits(field, 1, 16, <<>>).mag]

\* The end of the closing marker that starts first in data, 0 without one.
EarliestEnd(data) ==
    The({IF ends = {} THEN 0 ELSE Least(ends)
         : ends \in {{Index(data, m) + Len(m) :
                         m \in {n \in {EndInstantaneousDemand,
                                       EndCurrentSummationDelivered,
                                       EndTimeCluster} :
                                    Index(data, n) >= 0}}}})

RECURSIVE Framing(_, _)
\* The frames of the stream s from offset from on, each ending with the
\* first closing marker after the frame before it.
Framing(s, from) ==
    The({IF e = 0 THEN <<>>
         ELSE <<[from |-> from, to |-> from + e]>> \o Framing(s, from + e)
         : e \in {EarliestEnd(SubSeq(s, from + 1, Len(s)))}})

\* ------------------------------------------------------------------ claims
\* C1: a frame whose record misses a required field, or has a required
\* field that is not hexadecimal, never causes a publish call, whatever
\* frames were handled before it.
C1_IncompleteRecordNeverPublished ==
    \A k \in 1..Len(frames) :
        IncompleteRecord(FrameText(k)) => ~PublishedFor(k)

\* C2: when split returns a token, the token ends with the closing marker
\* of the smallest offset in the buffer, whichever of the three it is.
C2_TokenEndsAtEarliestMarker ==
    \A tok \in {Tok} : tok.token >= 0 => tok.token = EarliestEnd(Data)

\* C3: the frames the scanner returns depend on the stream alone, not on
\* how the stream is divided into reads: they are the frames of the
\* stream cut after each closing marker in turn.
C3_FramesIndependentOfReads ==
    \A fs \in {Framing(stream, 0)} :
        \A k \in 1..Len(frames) : k <= Len(fs) /\ frames[k] = fs[k]

\* A record with all its required fields and the divisor zero.
ZeroDivisor(text) ==
    \/ CompleteDemand(text) /\ IsZero(DemandRecord(text).Divisor)
    \/ CompleteSummation(text) /\ IsZero(SummationRecord(text).Divisor)

\* C4: a record with all its required fields and the divisor zero is a
\* conversion error: nothing is published for it and the process ends.
C4_ZeroDivisorIsConversionError ==
    \A k \in 1..Len(frames) :
        ZeroDivisor(FrameText(k)) => (~PublishedFor(k) /\ pc = "fatal")

\* The low 32 bits of the magnitude mag as a signed integer.
Low32(mag) ==
    IF Limb(mag, 2) >= 32768
    THEN (Limb(mag, 2) - 65536) * 65536 + Limb(mag, 1)
    ELSE Limb(mag, 2) * 65536 + Limb(mag, 1)

\* The numeral of 1000 * n.
TimesThousand(n) == IF n = 0 THEN "0" ELSE ToString(n) \o "000"

\* A demand record with all its required fields, the multiplier 1 and the
\* divisor 1.
UnscaledDemand(v) ==
    /\ ValidInstantaneousDemand(v)
    /\ IsOne(v.Multiplier)
    /\ IsOne(v.Divisor)

\* C5: the demand is cut to its low 32 bits, read as a signed integer,
\* before it is scaled: with multiplier 1 and divisor 1 the power reading
\* of a demand record is 1000 times that signed integer, -1000 for the
\* demand 0xFFFFFFFF.
C5_DemandCutToInt32 ==
    \A j \in 1..Len(published) :
        \A text \in {FrameText(published[j].frame)} :
            text[2] = "I" =>
                \A v \in {DemandRecord(text)} :
                    UnscaledDemand(v) =>
                        \A i \in {ParseInt(v.Demand)} :
                            /\ published[j].topic = PowerTopic
                            /\ published[j].payload
                                   = TimesThousand(Low32(i.mag))

\* The power reading -1000 has been published for the demand 0xFFFFFFFF
\* with multiplier 1 and divisor 1.
C5_Witness ==
    \E j \in 1..Len(published) :
        /\ FrameText(published[j].frame) = Demand(TxtFFFFFFFF, TxtOne, TxtOne)
        /\ published[j].topic = PowerTopic
        /\ published[j].payload = "-1000"

\* C6: every required field that passes the validation is used with the
\* value of its text read as a hexadecimal numeral: the record is
\* published, with the power reading of these values.
C6_FieldsReadAsHexadecimal ==
    \A k \in 1..Len(frames) :
        \A text \in {FrameText(k)} :
            CompleteDemand(text) =>
                \A v \in {DemandRecord(text)} :
                    \E j \in 1..Len(published) :
                        /\ published[j].frame = k
                        /\ published[j].payload
                               \in PowerText(HexValue(v.Demand),
                                             HexValue(v.Multiplier),
                                             HexValue(v.Divisor))

\* The value of a magnitude of one limb.
Small(mag) == Limb(mag, 1)

\* The text of t thousandths with three decimals.
Decimal3(t) ==
    ToString(t \div 1000) \o "." \o ZeroPad(ToString(t % 1000), 3)

\* t is an integer nearest to 1000 * s * m / d.
NearestThousandth(t, s, m, d) ==
    /\ 2 * (t * d - 1000 * s * m) <= d
    /\ 2 * (1000 * s * m - t * d) <= d

\* The thousandths of s * m / d, rounded down.
Thousandths(s, m, d) == (1000 * s * m) \div d

\* The text is s * m / d with exactly three decimals.
IsEnergyText(text, s, m, d) ==
    \E t \in {Thousandths(s, m, d), Thousandths(s, m, d) + 1} :
        NearestThousandth(t, s, m, d) /\ text = Decimal3(t)

\* A summation value, multiplier and divisor small enough to compute with.
SmallEnergy(s, m, d) ==
    /\ s.err = "" /\ m.err = "" /\ d.err = ""
    /\ ~s.neg /\ ~m.neg /\ ~d.neg
    /\ Len(s.mag) <= 1 /\ Len(m.mag) <= 1 /\ Len(d.mag) = 1
    /\ Small(s.mag) < 16384 /\ Small(m.mag) < 32

\* C7: for a summation record with all its required fields and a divisor
\* that is not zero, the delivered and the received value published are
\* summation * multiplier / divisor with exactly three decimals: 9.999 for
\* the summation 0x270F, the multiplier 1 and the divisor 1000.
C7_EnergyHasThreeDecimals ==
    \A k \in 1..Len(frames) :
        \A text \in {FrameText(k)} :
            text[2] = "C" =>
                \A v \in {SummationRecord(text)} :
                    \A sd \in {ParseInt(v.SummationDelivered)},
                       sr \in {ParseInt(v.SummationReceived)},
                       m \in {ParseInt(v.Multiplier)},
                       d \in {ParseInt(v.Divisor)} :
                        (ValidCurrentSummationDelivered(v)
                         /\ SmallEnergy(sd, m, d) /\ SmallEnergy(sr, m, d))
                        =>
                            /\ \E j \in 1..Len(published) :
                                   /\ published[j].frame = k
                                   /\ published[j].topic = DeliveredTopic
                                   /\ IsEnergyText(published[j].payload,
                                          Small(sd.mag), Small(m.mag),
                                          Small(d.mag))
                            /\ \E j \in 1..Len(published) :
                                   /\ published[j].frame = k
                                   /\ published[j].topic = ReceivedTopic
                                   /\ IsEnergyText(published[j].payload,
                                          Small(sr.mag), Small(m.mag),
                                          Small(d.mag))

\* The delivered value 9.999 has been published for the summation 0x270F
\* with multiplier 1 and divisor 1000.
C7_Witness ==
    \E j \in 1..Len(published) :
        /\ FrameText(published[j].frame)
               = Summation(Txt0000270F, TxtZero, TxtOne, Txt3E8)
        /\ published[j].topic = DeliveredTopic
        /\ published[j].payload = "9.999"

\* C8: a frame whose byte at index 1 is none of I, C, T ends the process
\* with a fatal log: nothing is published for it and no frame follows it.
C8_UnexpectedDiscriminantIsFatal ==
    \A k \in 1..Len(frames) :
        FrameText(k)[2] \notin {"I", "C", "T"} =>
            /\ pc = "fatal"
            /\ LoggedFor(k, Unexpected)
            /\ ~PublishedFor(k)
            /\ Len(frames) = k

\* The process has ended on a frame of an unknown discriminant that came
\* after another frame.
C8_Witness ==
    /\ pc = "fatal"
    /\ Len(frames) = 2
    /\ FrameText(2)[2] \notin {"I", "C", "T"}
    /\ LoggedFor(2, Unexpected)

\* C9: the step that handles a time cluster frame publishes nothing, logs
\* nothing, leaves both record structures as they are, and leaves the
\* loop running.
C9_TimeClusterIgnored ==
    [][(Len(frames') = Len(frames) + 1
        /\ stream[frames'[Len(frames')].from + 2] = "T")
       => /\ UNCHANGED <<instantaneousDemand, currentSummationDelivered,
                         published, logs>>
          /\ pc' = "scan"]_vars

\* A time cluster frame has been handled, and after it a frame that was
\* published.
C9_Witness ==
    /\ Len(frames) = 2
    /\ FrameText(1)[2] = "T"
    /\ logs = <<>>
    /\ PublishedFor(2)

\* A demand record with all its required fields, each of them a numeral
\* that ParseInt accepts.
NumericDemand(text) ==
    /\ text[2] = "I"
    /\ \E v \in {DemandRecord(text)} :
           /\ ValidInstantaneousDemand(v)
           /\ \A f \in {"Demand", "Multiplier", "Divisor"} :
                  ParseInt(v[f]).err = ""

\* C10: a frame that fails the validation does not end the process: the
\* loop goes on scanning, and a later frame whose record has all its
\* required fields, each a numeral, is decoded and published.
C10_ValidationFailureRecoverable ==
    \A k \in 1..Len(frames) :
        LoggedFor(k, Skipping) =>
            /\ (k = Len(frames) => pc # "fatal")
            /\ \A j \in (k + 1)..Len(frames) :
                   NumericDemand(FrameText(j)) => PublishedFor(j)

\* A demand record has been published after a frame that failed the
\* validation.
C10_Witness ==
    \E k \in 1..Len(frames) :
        /\ LoggedFor(k, Skipping)
        /\ \E j \in (k + 1)..Len(frames) :
               NumericDemand(FrameText(j)) /\ PublishedFor(j)

\* What the handling of frame k has done: its Publish calls, their number,
\* and its log messages.
OutcomeOf(k) ==
    [pub |-> {<<published[j].topic, published[j].payload>> :
                  j \in {i \in 1..Len(published) : published[i].frame = k}},
     n |-> Cardinality({i \in 1..Len(published) : published[i].frame = k}),
     log |-> {logs[j].msg : j \in {i \in 1..Len(logs) : logs[i].frame = k}}]

\* What the conversion of the demand record v does: the fatal log when a
\* field does not parse, else one power reading.
DemandOutcomes(v) ==
    The({IF i.err # "" \/ m.err # "" \/ d.err # ""
         THEN {[pub |-> {}, n |-> 0, log |-> {ErrorParsing}]}
         ELSE {[pub |-> {<<PowerTopic, t>>}, n |-> 1, log |-> {}] :
                  t \in PowerText(i, m, d)}
         : i \in {ParseInt(v.Demand)}, m \in {ParseInt(v.Multiplier)},
           d \in {ParseInt(v.Divisor)}})

\* What the conversion of the summation record v does.
SummationOutcomes(v) ==
    The({IF sd.err # "" \/ sr.err # "" \/ m.err # "" \/ d.err # ""
         THEN {[pub |-> {}, n |-> 0, log |-> {ErrorParsing}]}
         ELSE {[pub |-> {<<DeliveredTopic, EnergyText(sd, m, d)>>,
                         <<ReceivedTopic, EnergyText(sr, m, d)>>},
                n |-> 2, log |-> {}]}
         : sd \in {ParseInt(v.SummationDelivered)},
           sr \in {ParseInt(v.SummationReceived)},
           m \in {ParseInt(v.Multiplier)}, d \in {ParseInt(v.Divisor)}})

\* The outcomes of a frame by its bytes alone: the frame decoded into an
\* empty structure, validated and converted.  A frame whose record is not
\* complete has none here.
FrameOutcomes(text) ==
    IF text[2] = "I"
    THEN The({IF ValidInstantaneousDemand(v) THEN DemandOutcomes(v) ELSE {}
              : v \in {DemandRecord(text)}})
    ELSE IF text[2] = "C"
    THEN The({IF ValidCurrentSummationDelivered(v)
              THEN SummationOutcomes(v) ELSE {}
              : v \in {SummationRecord(text)}})
    ELSE {}

\* The frame handled last, and what its handling has done.
LastText == FrameText(Len(frames))
LastOutcome == OutcomeOf(Len(frames))

\* C11: the outcome of a frame whose record has all its required fields,
\* each hexadecimal, is a function of the bytes of the frame: whatever
\* frames were handled before, the step that handles it publishes, or
\* ends the process, as the same frame does when handled first.  (Where
\* the conversion to int is implementation-dependent the outcome is one
\* of the values an implementation gives.)
C11_OutcomeDependsOnFrameAlone ==
    [][(Len(frames') = Len(frames) + 1 /\ FrameOutcomes(LastText') # {})
       => LastOutcome' \in FrameOutcomes(LastText')]_vars

\* A complete demand record has been published after another demand
\* record had filled the structure.
C11_Witness ==
    /\ Len(frames) = 2
    /\ FrameText(1)[2] = "I"
    /\ FrameText(1) # FrameText(2)
    /\ CompleteDemand(FrameText(1))
    /\ CompleteDemand(FrameText(2))
    /\ PublishedFor(1)
    /\ PublishedFor(2)

\* The three closing markers.
Markers ==
    {EndInstantaneousDemand, EndCurrentSummationDelivered, EndTimeCluster}

\* The text ends with the marker m.
EndsWith(text, m) ==
    /\ Len(text) >= Len(m)
    /\ SubSeq(text, Len(text) - Len(m) + 1, Len(text)) = m

\* C12: every frame the scanner has returned is at least as long as the
\* closing marker that ends it, and no two frames share a byte of the
\* stream.
C12_FramesWholeAndDisjoint ==
    \A k \in 1..Len(frames) :
        /\ \E m \in Markers : EndsWith(FrameText(k), m)
        /\ \A j \in 1..(k - 1) : frames[j].to <= frames[k].from

\* The scanner has returned two frames.
C12_Witness ==
    /\ Len(frames) = 2
    /\ frames[1].to <= frames[2].from
    /\ \E m \in Markers : EndsWith(FrameText(2), m)

\* The handling of frame k has made at most one measurement event: one
\* power reading, or one delivered and one received reading.
OneEvent(k) ==
    \A o \in {OutcomeOf(k)} :
        \/ o.n = 0
        \/ o.n = 1 /\ \E t \in {PowerTopic, DeliveredTopic, ReceivedTopic} :
                          \E p \in o.pub : p[1] = t
        \/ /\ o.n = 2
           /\ \E p \in o.pub : p[1] = DeliveredTopic
           /\ \E p \in o.pub : p[1] = ReceivedTopic

\* C13: frames are handled in order and at most once: a frame leads to at
\* most one measurement event, the publish calls follow the order of the
\* frames, and what is published while a frame is handled comes from the
\* record of that frame, not from a frame before it.
C13_InOrderAtMostOnce ==
    /\ \A k \in 1..Len(frames) : OneEvent(k)
    /\ \A i \in 1..Len(published) : \A j \in i..Len(published) :
           published[i].frame <= published[j].frame
    /\ \A k \in 1..Len(frames) :
           PublishedFor(k) =>
               (CompleteDemand(FrameText(k))
                \/ CompleteSummation(FrameText(k)))

\* C14: the buffer never grows beyond the greatest token size, and when it
\* is full at that size without a closing marker the program fails with a
\* reported fatal error; it does not end as at the end of the stream.
C14_TooLongIsFatal ==
    /\ buflen <= MaxScanTokenSize
    /\ err = "ErrTooLong" => (pc = "fatal" /\ logs # <<>>)

\* C15: the process never ends silently: when it has ended, on a frame
\* too large, a conversion error, an unknown frame or the end of the
\* stream, the last thing logged is the diagnostic of log.Fatal.
C15_NeverEndsSilently ==
    pc # "scan" =>
        /\ logs # <<>>
        /\ logs[Len(logs)].msg \in {ErrorParsing, Unexpected}
        /\ pc = "fatal"

\* Frame k is the last frame of discriminant c handled so far.
LastOfKind(k, c) ==
    /\ FrameText(k)[2] = c
    /\ \A j \in (k + 1)..Len(frames) : FrameText(j)[2] # c

\* C16: after a frame is decoded the structure holds the record of that
\* frame alone: a field without an element in the frame is empty,
\* whatever the frames before it held.
C16_AbsentFieldsEmpty ==
    \A k \in 1..Len(frames) :
        /\ LastOfKind(k, "I") =>
               instantaneousDemand = DemandRecord(FrameText(k))
        /\ LastOfKind(k, "C") =>
               currentSummationDelivered = SummationRecord(FrameText(k))

\* A demand value, multiplier and divisor small enough to compute with:
\* the demand within 32 bits, its signed value under 16384 in size, a
\* multiplier under 32 and a divisor of one limb, not zero.
SmallDemand(i, m, d) ==
    /\ i.err = "" /\ m.err = "" /\ d.err = ""
    /\ ~i.neg /\ ~m.neg /\ ~d.neg
    /\ Len(i.mag) <= 2 /\ Len(m.mag) <= 1 /\ Len(d.mag) = 1
    /\ Low32(i.mag) < 16384 /\ Low32(i.mag) > -16384
    /\ Small(m.mag) < 32

\* C17: for a demand record with all its required fields and a divisor
\* that is not zero, the power reading is the integer nearest to
\* 1000 * demand * multiplier / divisor, the demand taken as a signed
\* 32-bit integer.
C17_PowerRoundedToNearest ==
    \A j \in 1..Len(published) :
        \A text \in {FrameText(published[j].frame)} :
            text[2] = "I" =>
                \A v \in {DemandRecord(text)} :
                    \A i \in {ParseInt(v.Demand)},
                       m \in {ParseInt(v.Multiplier)},
                       d \in {ParseInt(v.Divisor)} :
                        (ValidInstantaneousDemand(v) /\ SmallDemand(i, m, d))
                        =>
                            \E t \in {Thousandths(Low32(i.mag), Small(m.mag),
                                                  Small(d.mag)) + c
                                      : c \in {0, 1}} :
                                /\ NearestThousandth(t, Low32(i.mag),
                                                     Small(m.mag),
                                                     Small(d.mag))
                                /\ published[j].payload = ToString(t)

\* Every required field of the record of a frame that passes the
\* validation parses to a 64-bit integer.
RequiredFieldsParse(text) ==
    /\ CompleteDemand(text) =>
           \A v \in {DemandRecord(text)} :
               \A f \in {"Demand", "Multiplier", "Divisor"} :
                   ParseInt(v[f]).err = ""
    /\ CompleteSummation(text) =>
           \A v \in {SummationRecord(text)} :
               \A f \in {"SummationDelivered", "SummationReceived",
                         "Multiplier", "Divisor"} :
                   ParseInt(v[f]).err = ""

\* C18: a required field that passes the hexadecimal validation always
\* parses to a 64-bit integer, so no frame ends the process with the
\* parse error.
C18_ValidatedFieldsParse ==
    \A k \in 1..Len(frames) :
        /\ RequiredFieldsParse(FrameText(k))
        /\ ~LoggedFor(k, ErrorParsing)

\* C19: the first frame starts at the start of the stream and every other
\* frame where the frame before it ended, every frame ends with a whole
\* closing marker and lies within the bytes read: the frames together are
\* a prefix of the stream, and bytes with no marker after them, the rest
\* of the stream at its end included, are in no frame.
C19_FramesArePrefixOfStream ==
    \A k \in 1..Len(frames) :
        /\ frames[k].from = (IF k = 1 THEN 0 ELSE frames[k - 1].to)
        /\ frames[k].from < frames[k].to
        /\ frames[k].to <= rd
        /\ \E m \in Markers : EndsWith(FrameText(k), m)

\* The stream has ended with bytes after the last closing marker: one
\* frame was returned and the rest of the stream is in no frame.
C19_Witness ==
    /\ pc = "done" /\ err = "EOF"
    /\ Len(frames) = 1
    /\ frames[1].from = 0
    /\ frames[1].to < Len(stream)
    /\ rd = Len(stream)
    /\ EndsWith(FrameText(1), EndInstantaneousDemand)

\* The text is one whole record of the element name: it starts with the
\* opening tag and ends with the closing marker m.
WholeRecord(text, name, m) ==
    /\ EndsWith(text, m)
    /\ Len(text) >= Len(name) + 2
    /\ SubSeq(text, 1, Len(name) + 2) = <<"<">> \o name \o <<">">>

\* The stream is a concatenation of whole demand, summation and time
\* cluster records.
WellFormed(s) ==
    \A fs \in {Framing(s, 0)} :
        /\ fs # <<>>
        /\ fs[Len(fs)].to = Len(s)
        /\ \A i \in 1..Len(fs) :
               \A text \in {SubSeq(s, fs[i].from + 1, fs[i].to)} :
                   \/ WholeRecord(text, N_InstantaneousDemand,
                                  EndInstantaneousDemand)
                   \/ WholeRecord(text, N_CurrentSummationDelivered,
                                  EndCurrentSummationDelivered)
                   \/ WholeRecord(text, N_TimeCluster, EndTimeCluster)

\* A demand or summation record with all its required fields, each a
\* numeral, and a divisor that is not zero.
Publishable(text) ==
    /\ CompleteDemand(text) \/ CompleteSummation(text)
    /\ RequiredFieldsParse(text)
    /\ ~ZeroDivisor(text)

\* C20: when a well-formed stream has been read to its end, every demand
\* or summation record of it with valid required fields and a divisor
\* that is not zero has been published, once: a frame starts where the
\* record starts and its handling has made one measurement event.
C20_EveryValidRecordPublished ==
    (pc = "done" /\ err = "EOF" /\ WellFormed(stream)) =>
        \A fs \in {Framing(stream, 0)} :
            \A i \in 1..Len(fs) :
                Publishable(SubSeq(stream, fs[i].from + 1, fs[i].to)) =>
                    \E k \in 1..Len(frames) :
                        /\ frames[k].from = fs[i].from
                        /\ PublishedFor(k)
                        /\ OneEvent(k)

====
